---- MODULE Spec2Model ----
(***************************************************************************)
(* Model of the Confluence-to-Markdown exporter.                           *)
(*                                                                         *)
(*   src/export_confluence.py  html_to_markdown, sanitize_filename,        *)
(*                             get_page, get_child_pages,                  *)
(*                             export_page_to_markdown,                    *)
(*                             export_page_with_children, main block       *)
(*   src/api_client.py         ConfluenceClient.get_page / get_child_pages *)
(*                                                                         *)
(* Strings are sequences of one-character strings.  The two non-ASCII code *)
(* points the converter names are the one-element tokens NBSP (U+00A0) and *)
(* ELLIPSIS (U+2026).                                                      *)
(***************************************************************************)
EXTENDS Integers, Sequences, FiniteSets, TLC

VARIABLES
    children,    \* server: page id -> ordered list of child page ids
    title,       \* server: page id -> title (a string)
    max_depth,   \* --max-depth
    fetcher,     \* which Content Fetcher runs: "script" or "client"
    stack,       \* call stack of export_page_with_children frames, top last
    log,         \* every fetch, file write, directory creation, skip: in order
    files,       \* files on disk, as paths relative to the output directory
    dirs,        \* directories on disk, relative to the output directory
    status,      \* "start", "running", "done", "aborted"
    exit_code,   \* process exit status once the process has ended
    faults,      \* number of failed requests so far
    parts,       \* html_to_markdown: the pieces the argument is made of
    html,        \* html_to_markdown: the argument
    markdown,    \* html_to_markdown: the returned text
    filename,    \* sanitize_filename: the argument
    safe_name,   \* sanitize_filename: the returned text
    phase        \* "tree", or for a function call "input" then "output"

vars == <<children, title, max_depth, fetcher, stack, log, files, dirs,
          status, exit_code, faults, parts, html, markdown, filename, safe_name,
          phase>>

treeVars == <<children, title, max_depth, fetcher, stack, log, files, dirs,
              status, exit_code, faults>>
pureVars == <<parts, html, markdown, filename, safe_name, phase>>

(***************************************************************************)
(* Bounds                                                                  *)
(***************************************************************************)
MaxDepthBound == 3      \* max_depth ranges over 0..MaxDepthBound
MaxFaults == 2          \* failed requests injected per run
MaxPieces == 2          \* pieces an html_to_markdown argument is made of
MaxEdge == 1            \* characters before and after the filler of a title

(***************************************************************************)
(* Small helpers on sequences                                              *)
(***************************************************************************)
Last(s) == s[Len(s)]
ButLast(s) == SubSeq(s, 1, Len(s) - 1)
Drop(s, n) == SubSeq(s, n + 1, Len(s))
Take(s, n) == SubSeq(s, 1, n)
Min(S) == CHOOSE x \in S : \A y \in S : x <= y
Max(S) == CHOOSE x \in S : \A y \in S : x >= y

(***************************************************************************)
(* sanitize_filename                                                       *)
(***************************************************************************)
MaxFilenameLen == 200

InvalidChars == {"<", ">", ":", "\"", "/", "\\", "|", "?", "*"}

\* mutant: the character class lacks the two path separators
ReplaceInvalid_KeepSeparators(s) ==
    [i \in 1..Len(s) |->
        IF s[i] \in InvalidChars \ {"/", "\\"} THEN "_" ELSE s[i]]

\* re.sub(r'[<>:"/\\|?*]', '_', filename)
ReplaceInvalid(s) == [i \in 1..Len(s) |-> IF s[i] \in InvalidChars THEN "_" ELSE s[i]]

\* filename.strip('. ')
StripChars(s, cs) ==
    LET keep == {i \in 1..Len(s) : s[i] \notin cs}
    IN  IF keep = {} THEN <<>> ELSE SubSeq(s, Min(keep), Max(keep))

\* mutant: the slice keeps one character too many
Truncate_OffByOne(s) ==
    IF Len(s) > MaxFilenameLen THEN Take(s, MaxFilenameLen + 1) ELSE s

\* if len(filename) > 200: filename = filename[:200]
Truncate(s) == IF Len(s) > MaxFilenameLen THEN Take(s, MaxFilenameLen) ELSE s

sanitize_filename(s) == Truncate(StripChars(ReplaceInvalid(s), {".", " "}))

(***************************************************************************)
(* html_to_markdown                                                        *)
(***************************************************************************)
NBSP == "NBSP"
ELLIPSIS == "ELLIPSIS"

\* what \s and str.strip() take for whitespace, among the characters used
Whitespace == {" ", "\n", "\t", "\r", NBSP}

Matches(s, i, pat) ==
    /\ i + Len(pat) - 1 <= Len(s)
    /\ SubSeq(s, i, i + Len(pat) - 1) = pat

\* the first position >= i where pat occurs in s, 0 when there is none
FindFrom(s, pat, i) ==
    LET c == {j \in i..Len(s) : Matches(s, j, pat)}
    IN  IF c = {} THEN 0 ELSE Min(c)

Contains(s, pat) == FindFrom(s, pat, 1) # 0

\* the opening tags of the substitutions: a literal ('<p>', '<em>'), a name
\* followed by [^>]*> ('<h1[^>]*>') or by \s+[^>]*> ('<p\s+[^>]*>')
Exact(lit) == [kind |-> "exact", lit |-> lit]
Attrs(lit) == [kind |-> "attrs", lit |-> lit]
SpaceAttrs(lit) == [kind |-> "space_attrs", lit |-> lit]

\* the position of the '>' that ends a match of the opening tag at i, or 0
OpenEnd(s, i, open) ==
    IF ~Matches(s, i, open.lit) THEN 0
    ELSE LET n == i + Len(open.lit)
         IN  CASE open.kind = "exact" -> n - 1
               [] open.kind = "attrs" -> FindFrom(s, <<">">>, n)
               [] open.kind = "space_attrs" ->
                     IF n <= Len(s) /\ s[n] \in Whitespace
                     THEN FindFrom(s, <<">">>, n + 1)
                     ELSE 0

\* the position of the closing tag of a match of  open(.*?)close  at i, or 0:
\* the first close after the opening tag, with no newline before it ('.' does
\* not match a newline)
CloseAt(s, i, open, close) ==
    LET k == OpenEnd(s, i, open)
        j == IF k = 0 THEN 0 ELSE FindFrom(s, close, k + 1)
    IN  IF j = 0 THEN 0
        ELSE IF \E m \in (k + 1)..(j - 1) : s[m] = "\n" THEN 0
        ELSE j

RECURSIVE SubWrappedFrom(_, _, _, _, _, _)
SubWrappedFrom(s, i, open, close, pre, post) ==
    IF i > Len(s) THEN <<>>
    ELSE LET j == CloseAt(s, i, open, close)
         IN  IF j = 0
             THEN <<s[i]>> \o SubWrappedFrom(s, i + 1, open, close, pre, post)
             ELSE pre \o SubSeq(s, OpenEnd(s, i, open) + 1, j - 1) \o post
                      \o SubWrappedFrom(s, j + Len(close), open, close, pre, post)

\* re.sub(r'open(.*?)close', r'pre\1post', s)
SubWrapped(s, open, close, pre, post) == SubWrappedFrom(s, 1, open, close, pre, post)

\* the position of the '>' that ends a match of  <br\s*/?>  at i, or 0
BrEnd(s, i) ==
    IF ~Matches(s, i, <<"<", "b", "r">>) THEN 0
    ELSE LET rest == {m \in (i + 3)..Len(s) : s[m] \notin Whitespace}
             m == IF rest = {} THEN 0 ELSE Min(rest)
         IN  IF m = 0 THEN 0
             ELSE IF s[m] = ">" THEN m
             ELSE IF s[m] = "/" /\ m + 1 <= Len(s) /\ s[m + 1] = ">" THEN m + 1
             ELSE 0

RECURSIVE SubBrFrom(_, _)
SubBrFrom(s, i) ==
    IF i > Len(s) THEN <<>>
    ELSE IF BrEnd(s, i) = 0 THEN <<s[i]>> \o SubBrFrom(s, i + 1)
    ELSE <<"\n">> \o SubBrFrom(s, BrEnd(s, i) + 1)

\* re.sub(r'<br\s*/?>', '\n', s)
SubBr(s) == SubBrFrom(s, 1)

RECURSIVE ReplaceFrom(_, _, _, _)
ReplaceFrom(s, i, old, new) ==
    IF i > Len(s) THEN <<>>
    ELSE IF Matches(s, i, old) THEN new \o ReplaceFrom(s, i + Len(old), old, new)
    ELSE <<s[i]>> \o ReplaceFrom(s, i + 1, old, new)

\* s.replace(old, new)
Replace(s, old, new) == ReplaceFrom(s, 1, old, new)

\* the position of the '>' that ends a match of  <[^>]+>  at i, or 0
TagEnd(s, i) ==
    IF s[i] # "<" THEN 0
    ELSE LET k == FindFrom(s, <<">">>, i + 1)
         IN  IF k >= i + 2 THEN k ELSE 0

RECURSIVE StripTagsFrom(_, _)
StripTagsFrom(s, i) ==
    IF i > Len(s) THEN <<>>
    ELSE IF TagEnd(s, i) = 0 THEN <<s[i]>> \o StripTagsFrom(s, i + 1)
    ELSE StripTagsFrom(s, TagEnd(s, i) + 1)

\* mutant: the remaining tags are left in the text
StripTags_Kept(s) == s

\* re.sub(r'<[^>]+>', '', s)
StripTags(s) == StripTagsFrom(s, 1)

\* the last position of the run of newlines that starts at i
RunEnd(s, i) ==
    Max({m \in i..Len(s) : \A n \in i..m : s[n] = "\n"})

RECURSIVE CollapseFrom(_, _)
CollapseFrom(s, i) ==
    IF i > Len(s) THEN <<>>
    ELSE IF Matches(s, i, <<"\n", "\n", "\n">>)
    THEN <<"\n", "\n">> \o CollapseFrom(s, RunEnd(s, i) + 1)
    ELSE <<s[i]>> \o CollapseFrom(s, i + 1)

\* re.sub(r'\n\n\n+', '\n\n', s)
CollapseNewlines(s) == CollapseFrom(s, 1)

\* mutant: only the end of the text is trimmed (rstrip)
StripWhitespace_Right(s) ==
    LET keep == {i \in 1..Len(s) : s[i] \notin Whitespace}
    IN  IF keep = {} THEN <<>> ELSE SubSeq(s, 1, Max(keep))

\* text.strip()
StripWhitespace(s) == StripChars(s, Whitespace)

Headers(s) ==
    LET t1 == SubWrapped(s,  Attrs(<<"<", "h", "1">>), <<"<", "/", "h", "1", ">">>,
                         <<"#", " ">>, <<"\n">>)
        t2 == SubWrapped(t1, Attrs(<<"<", "h", "2">>), <<"<", "/", "h", "2", ">">>,
                         <<"#", "#", " ">>, <<"\n">>)
        t3 == SubWrapped(t2, Attrs(<<"<", "h", "3">>), <<"<", "/", "h", "3", ">">>,
                         <<"#", "#", "#", " ">>, <<"\n">>)
    IN  SubWrapped(t3, Attrs(<<"<", "h", "4">>), <<"<", "/", "h", "4", ">">>,
                   <<"#", "#", "#", "#", " ">>, <<"\n">>)

Paragraphs(s) ==
    LET t1 == SubWrapped(s, Exact(<<"<", "p", ">">>), <<"<", "/", "p", ">">>,
                         <<>>, <<"\n", "\n">>)
    IN  SubWrapped(t1, SpaceAttrs(<<"<", "p">>), <<"<", "/", "p", ">">>,
                   <<>>, <<"\n", "\n">>)

Emphasis(s) ==
    LET t1 == SubWrapped(s, Exact(<<"<", "e", "m", ">">>), <<"<", "/", "e", "m", ">">>,
                         <<"*">>, <<"*">>)
    IN  SubWrapped(t1, Exact(<<"<", "s", "t", "r", "o", "n", "g", ">">>),
                   <<"<", "/", "s", "t", "r", "o", "n", "g", ">">>,
                   <<"*", "*">>, <<"*", "*">>)

Entities(s) ==
    LET t1 == Replace(s,  <<"&", "n", "b", "s", "p", ";">>, <<" ">>)
        t2 == Replace(t1, <<NBSP>>, <<" ">>)
        t3 == Replace(t2, <<"&", "a", "m", "p", ";">>, <<"&">>)
        t4 == Replace(t3, <<"&", "l", "t", ";">>, <<"<">>)
        t5 == Replace(t4, <<"&", "g", "t", ";">>, <<">">>)
    IN  Replace(t5, <<ELLIPSIS>>, <<".", ".", ".">>)

html_to_markdown(s) ==
    StripWhitespace(CollapseNewlines(StripTags(Entities(SubBr(
        Emphasis(Paragraphs(Headers(s))))))))

(***************************************************************************)
(* The Content Fetcher: what a request's outcome becomes for the caller    *)
(***************************************************************************)
Outcomes == {"ok", "HTTPError", "URLError"}
Fetchers == {"script", "client"}

\* mutant: an HTTP error of the page fetch is reported and the walk goes on
script_get_page_Continue(outcome) ==
    CASE outcome = "ok" -> "return"
      [] outcome = "HTTPError" -> "return"
      [] outcome = "URLError" -> "raise"

\* export_confluence.get_page: HTTPError -> sys.exit(1); URLError is not
\* caught and leaves the function as an exception.
script_get_page(outcome) ==
    CASE outcome = "ok" -> "return"
      [] outcome = "HTTPError" -> "exit"
      [] outcome = "URLError" -> "raise"

\* ConfluenceClient.get_page: both errors are re-raised as ConfluenceAPIError.
client_get_page(outcome) ==
    CASE outcome = "ok" -> "return"
      [] outcome = "HTTPError" -> "raise"
      [] outcome = "URLError" -> "raise"

get_page(f, outcome) ==
    IF f = "script" THEN script_get_page(outcome) ELSE client_get_page(outcome)

\* export_confluence.get_child_pages: HTTPError -> []; URLError is not caught.
script_get_child_pages(outcome) ==
    CASE outcome = "ok" -> "results"
      [] outcome = "HTTPError" -> "empty"
      [] outcome = "URLError" -> "raise"

\* ConfluenceClient.get_child_pages: both errors -> [].
client_get_child_pages(outcome) ==
    CASE outcome = "ok" -> "results"
      [] outcome = "HTTPError" -> "empty"
      [] outcome = "URLError" -> "empty"

get_child_pages(f, outcome) ==
    IF f = "script" THEN script_get_child_pages(outcome)
    ELSE client_get_child_pages(outcome)

(***************************************************************************)
(* Server contents the runs are drawn from.  Page 1 is the exported root.  *)
(***************************************************************************)
Graphs ==
    { << <<>>,        <<>>,     <<>> >>,      \* a single page
      << <<2, 3>>,    <<>>,     <<>> >>,      \* two leaf children
      << <<2, 3>>,    <<3>>,    <<2>> >>,     \* children with children, cyclic
      << <<2, 3>>,    <<1>>,    <<>> >>,      \* a child pointing back to the root
      << <<2>>,       <<3>>,    <<1>> >>,     \* a chain closing into a cycle
      << <<1>>,       <<>>,     <<>> >>,      \* a page listing itself
      << <<2, 3>>,    <<3, 3>>, <<>> >>,      \* a child listed twice
      << <<2, 3, 2>>, <<>>,     <<3>> >> }    \* three children

TitleSets ==
    { << <<"r">>,      <<"a">>,      <<"b">> >>,
      << <<"r">>,      <<"a", "?">>, <<"a", "*">> >>,   \* colliding file names
      << <<".", ".">>, <<"/">>,      <<" ", "a", ".">> >>,
      << <<".", ".", "/", ".", ".">>, <<"\\", ".", ".">>, <<"/", "a">> >> }


(***************************************************************************)
(* export_page_with_children                                               *)
(***************************************************************************)
\* os.path.join(output_dir, f"{safe_title}.md") and
\* os.path.join(output_dir, safe_title): a path is its list of components
OutputFile(dir, safe) == Append(dir, safe \o <<".", "m", "d">>)
ChildDir(dir, safe) == Append(dir, safe)

\* mutants of the depth guard: off by one in either direction
DepthExceeded_AtMax(depth, max) == depth >= max
DepthExceeded_Late(depth, max) == depth > max + 1

\* if depth > max_depth: ... return
DepthExceeded(depth, max) == depth > max

\* mutant of the loop: the children are walked last to first
ChildPos_Reversed(kids, k) == Len(kids) - k + 1

\* for child in children: the position of the server's list visited in the
\* k-th iteration
ChildPos(kids, k) == k

\* page_data: the position in the log of the response that the frame's
\* page_data (line 144) holds, 0 before the fetch
Frame(page, dir, depth, path) ==
    [page_id |-> page, output_dir |-> dir, depth |-> depth, path |-> path,
     pc |-> "enter", safe_title |-> <<>>, kids |-> <<>>, idx |-> 1,
     page_data |-> 0]

\* name_rec: the response the call's safe_title comes from (lines 145-148);
\* title_rec: for a write, the response the '# title' line comes from
Event(op, fr, out, target) ==
    [op |-> op, path |-> fr.path, page |-> fr.page_id, depth |-> fr.depth,
     out |-> out, target |-> target, name_rec |-> fr.page_data, title_rec |-> 0]

Top == Last(stack)
SetTop(fr) == [stack EXCEPT ![Len(stack)] = fr]

Running == status = "running" /\ stack # <<>>

\* a return of the top frame; the return of the outermost call ends main
\* (lines 243-244) and the process with status 0
Pop ==
    /\ stack' = ButLast(stack)
    /\ IF Len(stack) = 1
       THEN status' = "done" /\ exit_code' = 0
       ELSE UNCHANGED <<status, exit_code>>

\* sys.exit(1), or an exception that export_page_with_children does not catch
\* (URLError from the script's fetcher, ConfluenceAPIError from the client's):
\* it unwinds every frame and the interpreter ends the process with status 1
Abort ==
    /\ status' = "aborted"
    /\ exit_code' = 1
    /\ UNCHANGED stack

FaultOK(outcome) == outcome = "ok" \/ faults < MaxFaults
CountFault(outcome) == faults' = IF outcome = "ok" THEN faults ELSE faults + 1

\* __main__, tree mode: os.makedirs(output_dir); export_page_with_children(...)
Main ==
    /\ status = "start"
    /\ status' = "running"
    /\ dirs' = dirs \cup {<<>>}
    /\ stack' = <<Frame(1, <<>>, 0, <<>>)>>
    /\ UNCHANGED <<children, title, max_depth, fetcher, log, files, exit_code,
                   faults, pureVars>>

\* lines 139-141
DepthGuard ==
    /\ Running
    /\ Top.pc = "enter"
    /\ DepthExceeded(Top.depth, max_depth)
    /\ log' = Append(log, Event("skip", Top, "ok", <<>>))
    /\ Pop
    /\ UNCHANGED <<children, title, max_depth, fetcher, files, dirs, faults,
                   pureVars>>

\* lines 143-149: page_data = get_page(page_id); safe_title = sanitize(title)
GetPage ==
    /\ Running
    /\ Top.pc = "enter"
    /\ ~DepthExceeded(Top.depth, max_depth)
    /\ \E outcome \in Outcomes :
        /\ FaultOK(outcome)
        /\ CountFault(outcome)
        /\ log' = Append(log, Event("get_page", Top, outcome, <<>>))
        /\ IF get_page(fetcher, outcome) = "return"
           THEN /\ stack' = SetTop([Top EXCEPT
                        !.pc = "export",
                        !.page_data = Len(log) + 1,
                        !.safe_title = sanitize_filename(title[Top.page_id])])
                /\ UNCHANGED <<status, exit_code>>
           ELSE Abort
    /\ UNCHANGED <<children, title, max_depth, fetcher, files, dirs,
                   pureVars>>

\* mutant: export_page_to_markdown is called without output_file, so the
\* Markdown is printed and no file is written
ExportPageToMarkdown_Stdout ==
    /\ status = "running" /\ stack # <<>>
    /\ Last(stack).pc = "export"
    /\ \E outcome \in Outcomes :
        /\ outcome = "ok" \/ faults < MaxFaults
        /\ faults' = IF outcome = "ok" THEN faults ELSE faults + 1
        /\ log' = Append(log, Event("get_page", Last(stack), outcome, <<>>))
        /\ IF get_page(fetcher, outcome) = "return"
           THEN /\ stack' = [stack EXCEPT ![Len(stack)].pc = "children"]
                /\ UNCHANGED <<status, exit_code>>
           ELSE /\ status' = "aborted" /\ exit_code' = 1 /\ UNCHANGED stack
    /\ UNCHANGED <<children, title, max_depth, fetcher, files, dirs,
                   pureVars>>

\* line 154, export_page_to_markdown(page_id, output_file): fetches the page
\* again (line 117), then writes output_file (lines 126-128); the title of
\* line 124 is the one of this second response
ExportPageToMarkdown ==
    /\ Running
    /\ Top.pc = "export"
    /\ \E outcome \in Outcomes :
        /\ FaultOK(outcome)
        /\ CountFault(outcome)
        /\ IF get_page(fetcher, outcome) = "return"
           THEN /\ log' = log \o
                     << Event("get_page", Top, outcome, <<>>),
                        [Event("write", Top, "ok",
                               OutputFile(Top.output_dir, Top.safe_title))
                           EXCEPT !.title_rec = Len(log) + 1] >>
                /\ files' = files \cup
                               {OutputFile(Top.output_dir, Top.safe_title)}
                /\ stack' = SetTop([Top EXCEPT !.pc = "children"])
                /\ UNCHANGED <<status, exit_code>>
           ELSE /\ log' = Append(log, Event("get_page", Top, outcome, <<>>))
                /\ UNCHANGED files
                /\ Abort
    /\ UNCHANGED <<children, title, max_depth, fetcher, dirs,
                   pureVars>>

\* lines 157-163: children = get_child_pages(page_id); if children: makedirs
GetChildPages ==
    /\ Running
    /\ Top.pc = "children"
    /\ \E outcome \in Outcomes :
        /\ FaultOK(outcome)
        /\ CountFault(outcome)
        /\ LET res  == get_child_pages(fetcher, outcome)
               kids == IF res = "results" THEN children[Top.page_id] ELSE <<>>
               cdir == ChildDir(Top.output_dir, Top.safe_title)
               ev   == Event("get_child_pages", Top, outcome, <<>>)
           IN  IF res = "raise"
               THEN /\ log' = Append(log, ev)
                    /\ UNCHANGED dirs
                    /\ Abort
               ELSE IF kids = <<>>
               THEN /\ log' = Append(log, ev)
                    /\ UNCHANGED dirs
                    /\ Pop
               ELSE /\ log' = log \o <<ev, Event("mkdir", Top, "ok", cdir)>>
                    /\ dirs' = dirs \cup {cdir}
                    /\ stack' = SetTop([Top EXCEPT !.pc = "loop", !.kids = kids,
                                                   !.idx = 1])
                    /\ UNCHANGED <<status, exit_code>>
    /\ UNCHANGED <<children, title, max_depth, fetcher, files,
                   pureVars>>

\* lines 165-167: the next iteration of the loop calls the exporter for a child
CallChild ==
    /\ Running
    /\ Top.pc = "loop"
    /\ Top.idx <= Len(Top.kids)
    /\ LET k == ChildPos(Top.kids, Top.idx)
       IN  stack' = Append(SetTop([Top EXCEPT !.idx = Top.idx + 1]),
                           Frame(Top.kids[k],
                                 ChildDir(Top.output_dir, Top.safe_title),
                                 Top.depth + 1,
                                 Append(Top.path, k)))
    /\ UNCHANGED <<children, title, max_depth, fetcher, log, files, dirs,
                   status, exit_code, faults,
                   pureVars>>

\* the loop is exhausted: the call returns
Return ==
    /\ Running
    /\ Top.pc = "loop"
    /\ Top.idx > Len(Top.kids)
    /\ Pop
    /\ UNCHANGED <<children, title, max_depth, fetcher, log, files, dirs, faults,
                   pureVars>>

Init ==
    /\ children \in Graphs
    /\ title \in TitleSets
    /\ max_depth \in 0..MaxDepthBound
    /\ fetcher \in Fetchers
    /\ stack = <<>>
    /\ log = <<>>
    /\ files = {}
    /\ dirs = {}
    /\ status = "start"
    /\ exit_code = -1
    /\ faults = 0
    /\ parts = <<>>
    /\ html = <<>>
    /\ markdown = <<>>
    /\ filename = <<>>
    /\ safe_name = <<>>
    /\ phase = "tree"

Next ==
    \/ Main
    \/ DepthGuard
    \/ GetPage
    \/ ExportPageToMarkdown
    \/ GetChildPages
    \/ CallChild
    \/ Return

Spec == Init /\ [][Next]_vars

\* the interpreter runs the single thread until the process ends
FairSpec == Spec /\ WF_vars(Next)

(***************************************************************************)
(* The two pure functions, each called once on an argument drawn in Init   *)
(***************************************************************************)
TextPieces ==
    { <<"a">>,
      <<" ">>,
      <<"\n">>,
      <<"a", "\n", "\n", "\n", "b">>,
      <<NBSP>>,
      <<ELLIPSIS>>,
      <<"&", "n", "b", "s", "p", ";">>,
      <<"&", "a", "m", "p", ";">>,
      <<"&", "l", "t", ";">>,
      <<"&", "g", "t", ";">>,
      <<"l", "t", ";">> }

\* single-level elements of the tags the converter names
HtmlPieces ==
    { <<"<", "b", "r", ">">>,
      <<"<", "b", "r", "/", ">">>,
      <<"<", "b", "r", " ", "/", ">">>,
      <<"<", "h", "1", ">", "a", "<", "/", "h", "1", ">">>,
      <<"<", "h", "2", ">", "a", "<", "/", "h", "2", ">">>,
      <<"<", "h", "3", ">", "a", "<", "/", "h", "3", ">">>,
      <<"<", "h", "4", ">", "a", "<", "/", "h", "4", ">">>,
      <<"<", "p", ">", "a", "<", "/", "p", ">">>,
      <<"<", "e", "m", ">", "a", "<", "/", "e", "m", ">">>,
      <<"<", "s", "t", "r", "o", "n", "g", ">", "a", "<", "/", "s", "t", "r", "o", "n", "g", ">">>,
      <<"<", "h", "1", " ", "i", ">", "a", "<", "/", "h", "1", ">">>,
      <<"<", "p", " ", "i", ">", "a", "<", "/", "p", ">">>,
      <<"<", "p", ">", "&", "l", "t", ";", "<", "/", "p", ">">>,
      <<"<", "e", "m", ">", "&", "g", "t", ";", "<", "/", "e", "m", ">">>,
      <<"<", "p", ">", "a", "\n", "b", "<", "/", "p", ">">>,
      <<"<", "h", "2", ">", "<", "/", "h", "2", ">">> }

\* angle brackets written as text
RawPieces == { <<"<">>, <<">">> }

AllPieces == TextPieces \cup HtmlPieces \cup RawPieces

RECURSIVE Flatten(_)
Flatten(ps) == IF ps = <<>> THEN <<>> ELSE ps[1] \o Flatten(Drop(ps, 1))

TreeIdle ==
    /\ children = << <<>>, <<>>, <<>> >>
    /\ title = << <<"r">>, <<"a">>, <<"b">> >>
    /\ max_depth = 0
    /\ fetcher = "script"
    /\ stack = <<>>
    /\ log = <<>>
    /\ files = {}
    /\ dirs = {}
    /\ status = "idle"
    /\ exit_code = -1
    /\ faults = 0

ConvInit ==
    /\ TreeIdle
    /\ parts \in UNION {[1..n -> AllPieces] : n \in 0..MaxPieces}
    /\ html = Flatten(parts)
    /\ markdown = <<>>
    /\ filename = <<>>
    /\ safe_name = <<>>
    /\ phase = "input"

\* markdown = html_to_markdown(html_content)   (line 122)
Convert ==
    /\ phase = "input"
    /\ markdown' = html_to_markdown(html)
    /\ phase' = "output"
    /\ UNCHANGED <<treeVars, parts, html, filename, safe_name>>

ConvNext == Convert

ConvSpec == ConvInit /\ [][ConvNext]_vars

SanAlphabet == InvalidChars \cup {"a", ".", " "}
EdgeStrings == UNION {[1..n -> SanAlphabet] : n \in 0..MaxEdge}
FillerLens == {0, MaxFilenameLen - 1, MaxFilenameLen, MaxFilenameLen + 1}

SanInit ==
    /\ TreeIdle
    /\ parts = <<>>
    /\ html = <<>>
    /\ markdown = <<>>
    /\ \E h \in EdgeStrings, t \in EdgeStrings, n \in FillerLens :
          filename = h \o [i \in 1..n |-> "x"] \o t
    /\ safe_name = <<>>
    /\ phase = "input"

\* safe_title = sanitize_filename(title)   (line 148)
Sanitize ==
    /\ phase = "input"
    /\ safe_name' = sanitize_filename(filename)
    /\ phase' = "output"
    /\ UNCHANGED <<treeVars, parts, html, markdown, filename>>

SanNext == Sanitize

SanSpec == SanInit /\ [][SanNext]_vars

(***************************************************************************)
(* Properties of html_to_markdown                                          *)
(***************************************************************************)
NoAngle(s) == \A i \in 1..Len(s) : s[i] \notin {"<", ">"}

\* the argument is single-level HTML of the named tags, text and entities
WellFormed == \A i \in 1..Len(parts) : parts[i] \in TextPieces \cup HtmlPieces

\* &lt; or &gt; is written in s, directly or behind &amp;
MentionsLtGt(s) ==
    \/ Contains(s, <<"&", "l", "t", ";">>)
    \/ Contains(s, <<"&", "g", "t", ";">>)
    \/ Contains(s, <<"&", "a", "m", "p", ";", "l", "t", ";">>)
    \/ Contains(s, <<"&", "a", "m", "p", ";", "g", "t", ";">>)

IsTagAt(s, i) ==
    /\ s[i] = "<"
    /\ i + 1 <= Len(s)
    /\ s[i + 1] # ">"
    /\ \E j \in (i + 2)..Len(s) : s[j] = ">"

NoTags(s) == \A i \in 1..Len(s) : ~IsTagAt(s, i)

\* s without its leading and trailing whitespace
Trimmed(s) ==
    LET nw == {i \in 1..Len(s) : s[i] \notin Whitespace}
    IN  IF nw = {} THEN <<>>
        ELSE [k \in 1..(Max(nw) - Min(nw) + 1) |-> s[Min(nw) + k - 1]]

\* text the converter has something to decode or collapse in
HasEntityOrRun(s) ==
    \/ Contains(s, <<"&", "n", "b", "s", "p", ";">>)
    \/ Contains(s, <<"&", "a", "m", "p", ";">>)
    \/ Contains(s, <<"&", "l", "t", ";">>)
    \/ Contains(s, <<"&", "g", "t", ";">>)
    \/ Contains(s, <<NBSP>>)
    \/ Contains(s, <<ELLIPSIS>>)
    \/ Contains(s, <<"\n", "\n", "\n">>)

\* C8 as stated: an input without tags is returned unchanged except that
\* leading and trailing whitespace is trimmed.
C8_PlainTextUnchanged ==
    (phase = "output" /\ NoTags(html)) => markdown = Trimmed(html)

\* C8 as amended: the same, for inputs that also hold none of the entities
\* &nbsp; &amp; &lt; &gt;, no non-breaking-space or ellipsis character and no
\* run of three or more newlines.
C8_PlainTextWithoutEntities ==
    (phase = "output" /\ NoTags(html) /\ ~HasEntityOrRun(html)) =>
        markdown = Trimmed(html)

C8_Witness ==
    /\ phase = "output"
    /\ NoTags(html)
    /\ ~HasEntityOrRun(html)
    /\ html # <<>> /\ html[1] \in Whitespace
    /\ markdown # <<>>
    /\ markdown # html

(***************************************************************************)
(* Properties of sanitize_filename                                         *)
(***************************************************************************)
Forbidden == {"<", ">", ":", "\"", "/", "\\", "|", "?", "*"}
Clean(s) == \A i \in 1..Len(s) : s[i] \notin Forbidden
EdgeFree(s) == s = <<>> \/ (s[1] \notin {".", " "} /\ Last(s) \notin {".", " "})

\* C9 as stated: the output holds none of the nine characters and at most 200
\* characters, and a title that holds none of them and at most 200
\* characters is returned unchanged.
C9_Sanitizer ==
    phase = "output" =>
       /\ Clean(safe_name)
       /\ Len(safe_name) <= 200
       /\ (Clean(filename) /\ Len(filename) <= 200) => safe_name = filename

\* C9 as amended: the same, where the unchanged title also neither begins nor
\* ends with a space or a period.
C9_SanitizerEdgeFree ==
    phase = "output" =>
       /\ Clean(safe_name)
       /\ Len(safe_name) <= 200
       /\ (Clean(filename) /\ Len(filename) <= 200 /\ EdgeFree(filename)) =>
             safe_name = filename

C9_Witness ==
    /\ phase = "output"
    /\ Len(filename) > 200
    /\ ~Clean(filename)
    /\ Len(safe_name) = 200

(***************************************************************************)
(* Properties of the tree export                                           *)
(***************************************************************************)
LogIdx == 1..Len(log)
EventsOf(op) == {i \in LogIdx : log[i].op = op}
Ended == status \in {"done", "aborted"}
FailureFree == faults = 0

\* the disk holds what the log says was written and created, and nothing else
DiskMatchesLog ==
    /\ files = {log[i].target : i \in EventsOf("write")}
    /\ dirs = (IF status = "start" THEN {} ELSE {<<>>})
                 \cup {log[i].target : i \in EventsOf("mkdir")}

RECURSIVE PageAt(_, _)
\* the page a call path leads to, from page p
PageAt(p, path) ==
    IF path = <<>> THEN p ELSE PageAt(children[p][path[1]], Drop(path, 1))

RECURSIVE PathsFrom(_, _)
\* the call paths of at most d steps that the server's child lists allow from p
PathsFrom(p, d) ==
    {<<>>} \cup
    (IF d = 0 THEN {}
     ELSE UNION { { <<k>> \o q : q \in PathsFrom(children[p][k], d - 1) }
                  : k \in 1..Len(children[p]) })

\* C1: a tree export creates nothing for pages deeper than maxDepth: no file
\* is written and no directory is created that would hold pages deeper than
\* maxDepth; with maxDepth = 0 a finished export has written one file and
\* created no subdirectory; with maxDepth = 1 and a root with two children a
\* finished failure-free export has written the root file and two child
\* files, created the root's subdirectory and no other.
C1_NothingBeyondMaxDepth ==
    /\ \A i \in EventsOf("write") : log[i].depth <= max_depth
    /\ \A i \in EventsOf("mkdir") : log[i].depth + 1 <= max_depth
    /\ (status = "done" /\ max_depth = 0) =>
          /\ Cardinality(EventsOf("write")) = 1
          /\ EventsOf("mkdir") = {}
    /\ (status = "done" /\ FailureFree /\ max_depth = 1 /\ Len(children[1]) = 2) =>
          /\ Cardinality(EventsOf("write")) = 3
          /\ \A i \in EventsOf("mkdir") : log[i].path = <<>>

\* C2: a call with depth > maxDepth does nothing but return (no fetch, write
\* or directory creation carries its call path), every other call fetches; and
\* a finished failure-free export has written a file for every page reachable
\* at depth <= maxDepth and has skipped calls at depth maxDepth + 1 only.
C2_DepthGuard ==
    /\ \A i \in LogIdx : (log[i].op = "skip") <=> (log[i].depth > max_depth)
    /\ \A i \in EventsOf("skip") :
          /\ log[i].depth = max_depth + 1
          /\ \A j \in LogIdx : log[j].path = log[i].path => j = i
    /\ (status = "done" /\ FailureFree) =>
          \A q \in PathsFrom(1, max_depth) :
             \E i \in EventsOf("write") :
                /\ log[i].path = q
                /\ log[i].page = PageAt(1, q)
                /\ log[i].depth = Len(q)
                /\ log[i].target \in files

C2_Witness ==
    /\ status = "done" /\ FailureFree /\ max_depth >= 1
    /\ EventsOf("skip") # {}
    /\ \E i \in EventsOf("write") : log[i].depth = max_depth

\* C3: a failed page-body fetch is the last thing the export does: nothing is
\* fetched, written or created after it, the failing call has written no
\* file, and the process has ended with exit status 1.
C3_PageFetchFatal ==
    /\ DiskMatchesLog
    /\ \A i \in EventsOf("get_page") :
          log[i].out # "ok" =>
             /\ i = Len(log)
             /\ status = "aborted"
             /\ exit_code = 1
             /\ \A j \in EventsOf("write") : log[j].path # log[i].path

C3_Witness ==
    /\ status = "aborted"
    /\ log # <<>>
    /\ Last(log).op = "get_page" /\ Last(log).out # "ok"
    /\ Last(log).depth >= 1
    /\ \E i \in EventsOf("get_page") :
          i < Len(log) /\ log[i].path = Last(log).path

\* C4: a failed children-list fetch is recovered locally: the page gets no
\* subdirectory and the export is not aborted by it.
C4_ChildrenFetchRecovered ==
    \A i \in EventsOf("get_child_pages") :
       log[i].out # "ok" =>
          /\ \A j \in EventsOf("mkdir") : log[j].path # log[i].path
          /\ ~(i = Len(log) /\ status = "aborted")

\* C5: whenever the children list of a page has been requested, whatever the
\* request's outcome, the file of that call was written before the request
\* and is on disk.
C5_FileBeforeChildren ==
    \A i \in EventsOf("get_child_pages") :
       \E j \in EventsOf("write") :
          /\ j < i
          /\ log[j].path = log[i].path
          /\ log[j].target \in files

C5_Witness ==
    /\ Ended
    /\ \E i \in EventsOf("get_child_pages") : log[i].out = "HTTPError"
    /\ \E i \in EventsOf("get_child_pages") : log[i].out = "URLError"
    /\ \E i \in EventsOf("get_child_pages") : log[i].out = "ok"

\* the events of the call with call path q
OfCall(q, op) == {i \in EventsOf(op) : log[i].path = q}
Visits == {log[i].path : i \in EventsOf("get_page")}

\* C11: in a finished failure-free export every visit is exactly one
\* page-body fetch, then exactly one file write, then exactly one
\* children-list fetch, then at most one directory creation, and the written
\* file's name and '# title' line come from the same fetched page record.
C11_OneFetchPerVisit ==
    (status = "done" /\ FailureFree) =>
       \A q \in Visits :
          /\ Cardinality(OfCall(q, "get_page")) = 1
          /\ Cardinality(OfCall(q, "write")) = 1
          /\ Cardinality(OfCall(q, "get_child_pages")) = 1
          /\ Cardinality(OfCall(q, "mkdir")) <= 1
          /\ \A f \in OfCall(q, "get_page"), w \in OfCall(q, "write"),
                c \in OfCall(q, "get_child_pages") :
                /\ f < w /\ w < c
                /\ \A m \in OfCall(q, "mkdir") : c < m
                /\ log[w].name_rec = log[w].title_rec

\* a page listed below itself: a cycle of the page graph on the call stack
OnCycle ==
    \E m, n \in 1..Len(stack) : m < n /\ stack[m].page_id = stack[n].page_id

\* C6: every tree export ends, cyclic page graphs included, and no call of
\* export_page_with_children has depth greater than maxDepth + 1.
C6_Terminates ==
    /\ <>Ended
    /\ [](\A n \in 1..Len(stack) : stack[n].depth <= max_depth + 1)

C6_Witness ==
    /\ OnCycle
    /\ Top.depth = max_depth + 1
    /\ max_depth >= 1

\* call path a belongs to an earlier child than call path b of the same page
EarlierSibling(a, b) ==
    \E n \in 1..Len(a) :
       /\ n <= Len(b)
       /\ Take(a, n - 1) = Take(b, n - 1)
       /\ a[n] < b[n]

\* C10: everything done for a child and its descendants precedes everything
\* done for a child the server listed later.
C10_DepthFirstServerOrder ==
    \A i, j \in LogIdx :
       EarlierSibling(log[i].path, log[j].path) => i < j

C10_Witness ==
    /\ status = "done"
    /\ \E i, j \in LogIdx :
          /\ EarlierSibling(log[i].path, log[j].path)
          /\ Len(log[i].path) >= 2
          /\ log[i].op = "write"
          /\ log[j].op = "get_page"

(***************************************************************************)
(* Where a written path lies.  A path is the list of the components that   *)
(* os.path.join was given after output_dir; the file system splits each at *)
(* the separators ('/', and '\' where the platform has it), skips '' and   *)
(* '.', and goes to the parent directory at '..'.                          *)
(***************************************************************************)
Separators == {"/", "\\"}

RECURSIVE Segments(_)
\* the segments a component splits into at the separators
Segments(comp) ==
    LET cut == {i \in 1..Len(comp) : comp[i] \in Separators}
    IN  IF cut = {} THEN <<comp>>
        ELSE <<Take(comp, Min(cut) - 1)>> \o Segments(Drop(comp, Min(cut)))

RECURSIVE AllSegments(_)
AllSegments(path) ==
    IF path = <<>> THEN <<>> ELSE Segments(path[1]) \o AllSegments(Drop(path, 1))

RECURSIVE Level(_, _)
\* how far below output_dir the walk along segs ends when it starts d levels
\* below it; -1 once it has left output_dir
Level(segs, d) ==
    IF d < 0 \/ segs = <<>> THEN d
    ELSE IF segs[1] \in {<<>>, <<".">>} THEN Level(Drop(segs, 1), d)
    ELSE IF segs[1] = <<".", ".">> THEN Level(Drop(segs, 1), d - 1)
    ELSE Level(Drop(segs, 1), d + 1)

\* os.path.join drops output_dir when a later component starts at the root
Absolute(path) ==
    \E i \in 1..Len(path) : path[i] # <<>> /\ path[i][1] \in Separators

LevelOf(path) == IF Absolute(path) THEN -1 ELSE Level(AllSegments(path), 0)

\* a title that sanitize_filename has to defuse
Hostile(t) ==
    \/ \E i \in 1..Len(t) : t[i] \in Separators
    \/ (t # <<>> /\ \A i \in 1..Len(t) : t[i] \in {".", " "})

\* C12: every file written lies below the output directory and every
\* directory created is the output directory or lies below it, whatever the
\* titles, and each is exactly where the call's directory says: one level
\* per enclosing call.
C12_PathContainment ==
    /\ \A f \in files : LevelOf(f) >= 1
    /\ \A d \in dirs : LevelOf(d) >= 0
    /\ \A i \in EventsOf("write") :
          LevelOf(log[i].target) >= 1 /\ LevelOf(log[i].target) <= log[i].depth + 1
    /\ \A i \in EventsOf("mkdir") :
          LevelOf(log[i].target) >= 0 /\ LevelOf(log[i].target) <= log[i].depth + 1

C12_Witness ==
    /\ status = "done"
    /\ \E i \in EventsOf("mkdir") :
          /\ log[i].depth = 0
          /\ Hostile(title[1])
          /\ \E j \in EventsOf("write") :
                /\ log[j].depth >= 1
                /\ Hostile(title[log[j].page])
                /\ \E t \in Separators : t \in {title[log[j].page][n] :
                                                 n \in 1..Len(title[log[j].page])}

====
